---- MODULE Spec2Model ----
(***************************************************************************)
(* A model of the type-safe-state-js State tree: the Impl node             *)
(* (src/src/state+main.ts), its path access (state+access), its structural *)
(* operations (state+map, state+modify, state+clone), its inspection       *)
(* (state+inspect), its construction (state+utility), its equality         *)
(* (state+equal) and its Builder.                                          *)
(*                                                                         *)
(* A JavaScript string is a sequence of one-character tokens, so that      *)
(* String.split and Array.join are computed and not assumed.  A JavaScript *)
(* object used as a mapping is a sequence of <<key, value>> pairs with     *)
(* distinct keys, in insertion order.  A Try is a record: a success        *)
(* [ok |-> TRUE, value |-> v] or a failure [ok |-> FALSE, error |-> e].    *)
(***************************************************************************)
EXTENDS Integers, Sequences, FiniteSets, TLC

\* ------------------------------------------------------------------ bounds
\* The longest path handed to an operation, in segments.
MaxSegs == 3
\* The longest path handed to a two-path operation (copy, move), in segments.
MaxSegs2 == 2
\* The number of calls a behaviour makes, one on the result of the other.
MaxSteps == 2
\* The most entries of a key-value object handed to updatingKeyValues and the
\* most paths handed to cloneWithPaths.
MaxEntries == 2
\* The number of Builder objects a behaviour creates outside the operations.
MaxBuilders == 2
\* Levels of a uniform tree, and keys per level.
MaxLevels == 3
MaxPerLevel == 2
\* Calls made on Builders in one behaviour.
MaxBuilderSteps == 3

\* ------------------------------------------------------------------ alphabet
\* The characters keys are made of.
KeyChars == {"a", "b"}
\* The separator of a fresh Impl (state+main.ts constructor).
DefaultSeparator == "."
\* The separators a Builder is given (Builder.withSubstateSeparator).
Separators == {".", "/"}
\* The leaf values stored in a tree; two distinct non-null values.
Vals == {"n1", "n2"}
\* undefined / null: what obj[k] gives for a missing key, and Try.value of a failure.
Null == "null"

\* ------------------------------------------------------------------ strings
\* String.prototype.split(separator) for a one-character separator: the
\* segments between the occurrences of sep; "" splits into [""].
RECURSIVE split(_, _)
split(s, sep) ==
  IF \A i \in 1..Len(s) : s[i] # sep
  THEN <<s>>
  ELSE LET i == CHOOSE i \in 1..Len(s) :
                  s[i] = sep /\ \A j \in 1..(i - 1) : s[j] # sep
       IN <<SubSeq(s, 1, i - 1)>> \o split(SubSeq(s, i + 1, Len(s)), sep)

\* Array.prototype.join(separator).
RECURSIVE join(_, _)
join(segs, sep) ==
  IF Len(segs) = 0 THEN <<>>
  ELSE IF Len(segs) = 1 THEN segs[1]
  ELSE segs[1] \o <<sep>> \o join(Tail(segs), sep)

\* separated.slice(1, length).join(separator)
restOf(path, sep) == join(Tail(split(path, sep)), sep)

\* Collections.first(separated): split never returns an empty array.
firstOf(path, sep) == Head(split(path, sep))

\* ------------------------------------------------------------------ objects
hasKey(m, k) == \E i \in 1..Len(m) : m[i][1] = k

indexOf(m, k) == CHOOSE i \in 1..Len(m) : m[i][1] = k

\* obj[k] = v: an existing key keeps its place, a new key goes last.
put(m, k, v) ==
  IF hasKey(m, k) THEN [m EXCEPT ![indexOf(m, k)] = <<k, v>>]
  ELSE Append(m, <<k, v>>)

\* Objects.entries(obj).filter(v => v[0] !== key), reassembled.
without(m, k) == SelectSeq(m, LAMBDA e : e[1] # k)

keysOf(m) == {m[i][1] : i \in 1..Len(m)}

\* ------------------------------------------------------------------ Try
Success(v) == [ok |-> TRUE, value |-> v]

Failure(e) == [ok |-> FALSE, error |-> e]

\* The error messages of path resolution: their text and the path they name.
NoValueFoundAt(path) == [text |-> "No value found at", path |-> path]

NoSubstateAt(path) == [text |-> "No substate at", path |-> path]

\* ------------------------------------------------------------------ Impl
\* new Impl(): empty values, empty substate, '.' separator.
NewImpl == [values |-> <<>>, substate |-> <<>>, sep |-> DefaultSeparator]

\* A getter without the copy (return this._values): the caller gets the node's
\* own object.
valuesOfUncopied(n) == [map |-> n.values, shared |-> TRUE]

\* get values(): Object.assign({}, this._values), a copy; shared is whether the
\* returned object is the node's own object.
valuesOf(n) == [map |-> n.values, shared |-> FALSE]

\* A getter without the copy (return this._substate).
substateOfUncopied(n) == [map |-> n.substate, shared |-> TRUE]

\* get substate(): Object.assign({}, this._substate), a copy.
substateOf(n) == [map |-> n.substate, shared |-> FALSE]

\* state instanceof Impl: a node carries its separator, a plain object
\* {values, substate} does not.
isImpl(x) == "sep" \in DOMAIN x

\* object[field] || {}: a plain object is a record that has the field or not.
fieldOrEmpty(x, field) == IF field \in DOMAIN x THEN x[field] ELSE <<>>

\* fromState(state): undefined gives the empty state (empty() is a new Impl);
\* an Impl is returned as it is; a plain object is rebuilt with
\* builder().withValues(values).withSubstate(substates).build(), its
\* substates converted one by one.
RECURSIVE fromState(_)
fromState(x) ==
  IF x = [none |-> TRUE] THEN NewImpl
  ELSE IF isImpl(x) THEN x
  ELSE [values |-> fieldOrEmpty(x, "values"),
        substate |-> [i \in 1..Len(fieldOrEmpty(x, "substate")) |->
                        <<fieldOrEmpty(x, "substate")[i][1],
                          fromState(fieldOrEmpty(x, "substate")[i][2])>>],
        sep |-> DefaultSeparator]

\* A lookup that takes the empty key for the node itself.
substateLookupSelf(n, key, original) ==
  IF key = <<>> THEN Success(n)
  ELSE IF hasKey(substateOf(n).map, key)
  THEN Success(substateOf(n).map[indexOf(substateOf(n).map, key)][2])
  ELSE Failure(NoSubstateAt(original))

\* this.substate[v] / this.values[v] unwrapped with Try.unwrap and the error
\* replaced by one that names `original`.
substateLookup(n, key, original) ==
  IF hasKey(substateOf(n).map, key)
  THEN Success(substateOf(n).map[indexOf(substateOf(n).map, key)][2])
  ELSE Failure(NoSubstateAt(original))

\* A lookup whose failure names the key it was asked for, not `original`.
valueLookupNamingKey(n, key, original) ==
  IF hasKey(valuesOf(n).map, key) /\ valuesOf(n).map[indexOf(valuesOf(n).map, key)][2] # Null
  THEN Success(valuesOf(n).map[indexOf(valuesOf(n).map, key)][2])
  ELSE Failure(NoValueFoundAt(key))

valueLookup(n, key, original) ==
  IF hasKey(valuesOf(n).map, key) /\ valuesOf(n).map[indexOf(valuesOf(n).map, key)][2] # Null
  THEN Success(valuesOf(n).map[indexOf(valuesOf(n).map, key)][2])
  ELSE Failure(NoValueFoundAt(original))

RECURSIVE substateAtNode_(_, _, _)
substateAtNode_(n, path, original) ==
  IF Len(split(path, n.sep)) = 1
  THEN substateLookup(n, firstOf(path, n.sep), original)
  ELSE LET head == substateAtNode_(n, firstOf(path, n.sep), original)
       IN IF head.ok
          THEN substateAtNode_(fromState(head.value), restOf(path, n.sep), original)
          ELSE head

substateAtNode(n, path) == substateAtNode_(n, path, path)

RECURSIVE valueAtNode_(_, _, _)
valueAtNode_(n, path, original) ==
  IF Len(split(path, n.sep)) = 1
  THEN valueLookup(n, firstOf(path, n.sep), original)
  ELSE LET head == substateAtNode_(n, firstOf(path, n.sep), original)
       IN IF head.ok
          THEN valueAtNode_(fromState(head.value), restOf(path, n.sep), original)
          ELSE head

valueAtNode(n, path) == valueAtNode_(n, path, path)

\* Try.value: the value of a success, undefined for a failure.
valueOrNull(t) == IF t.ok THEN t.value ELSE Null

\* ------------------------------------------------------------------ typed access
\* The values of the four kinds the typed accessors tell apart: a number, a
\* string, a boolean, an instance of class A and one of class B.
TypedVals == {"n1", "s1", "t1", "A1", "B1"}

\* typeof v.
typeOf(v) ==
  CASE v \in {"n1", "n2"} -> "number"
    [] v = "s1" -> "string"
    [] v = "t1" -> "boolean"
    [] OTHER -> "object"

\* The classes handed to instanceAtNode.
Ctors == {"A", "B"}

\* v instanceof ctor.
instanceOf(v, ctor) ==
  \/ v = "A1" /\ ctor = "A"
  \/ v = "B1" /\ ctor = "B"

NoTypeAt(type, path) == [text |-> "No type at", type |-> type, path |-> path]

\* An accessor that does not look at the type.
stringAtNodeUntyped(n, path) == valueAtNode(n, path)

\* Impl.prototype.stringAtNode: the throw inside Try.map makes a failure.
stringAtNode(n, path) ==
  LET t == valueAtNode(n, path)
  IN IF ~t.ok THEN t
     ELSE IF typeOf(t.value) = "string" THEN t
     ELSE Failure(NoTypeAt("string", path))

\* Impl.prototype.booleanAtNode.
booleanAtNode(n, path) ==
  LET t == valueAtNode(n, path)
  IN IF ~t.ok THEN t
     ELSE IF typeOf(t.value) = "boolean" THEN t
     ELSE Failure(NoTypeAt("boolean", path))

\* Impl.prototype.numberAtNode.
numberAtNode(n, path) ==
  LET t == valueAtNode(n, path)
  IN IF ~t.ok THEN t
     ELSE IF typeOf(t.value) = "number" THEN t
     ELSE Failure(NoTypeAt("number", path))

\* Impl.prototype.instanceAtNode.
instanceAtNode(n, ctor, path) ==
  LET t == valueAtNode(n, path)
  IN IF ~t.ok THEN t
     ELSE IF instanceOf(t.value, ctor) THEN t
     ELSE Failure(NoTypeAt(ctor, path))

\* ------------------------------------------------------------------ Builder
\* A Builder and the Impl it holds.  src is the buildable it copied, as that
\* object is now; vShared / sShared tell whether the Impl's _values / _substate
\* is the very object of src, so that a write in place shows in src too.
NewBuilder ==
  [state |-> NewImpl, src |-> NewImpl, vShared |-> FALSE, sShared |-> FALSE]

\* Builder.withValues -> Impl.setValues: this._values = values || {}.
withValues(b, got) ==
  [b EXCEPT !.state.values = got.map, !.vShared = got.shared]

\* Builder.withSubstate -> Impl.setSubstates: this._substate = substate || {}.
withSubstate(b, got) ==
  [b EXCEPT !.state.substate = got.map, !.sShared = got.shared]

\* Builder.withSubstateSeparator -> Impl.setSubstateSeparator.
withSubstateSeparator(b, sep) == [b EXCEPT !.state.sep = sep]

\* Builder.withBuildable: values, substate and separator read through the getters.
withBuildable(b, n) ==
  withSubstateSeparator(
    withSubstate(withValues([b EXCEPT !.src = n], valuesOf(n)), substateOf(n)),
    n.sep)

\* Impl.cloneBuilder: this.builder().withBuildable(this).
cloneBuilder(n) == withBuildable(NewBuilder, n)

\* Builder.build: the Impl the Builder holds.
build(b) == b.state

\* A setValue that keeps no other key: this._values = {[key]: value}.
setValueAlone(b, key, value) ==
  LET m == <<<<key, value>>>>
  IN [b EXCEPT !.state.values = m,
               !.src.values = IF b.vShared THEN m ELSE @]

\* Impl.setValue: this._values[key] = value, in place.
setValue(b, key, value) ==
  LET m == put(b.state.values, key, value)
  IN [b EXCEPT !.state.values = m,
               !.src.values = IF b.vShared THEN m ELSE @]

\* A removeValue that leaves the key in place.
removeValueKeepingKey(b, key) == [b EXCEPT !.vShared = FALSE]

\* Impl.removeValue: this._values becomes a new object without the key.
removeValue(b, key) ==
  [b EXCEPT !.state.values = without(@, key), !.vShared = FALSE]

\* A setSubstate whose write is lost.
setSubstateLost(b, key, ss) == b

\* Impl.setSubstate: this._substate[key] = ss, in place.
setSubstate(b, key, ss) ==
  LET m == put(b.state.substate, key, ss)
  IN [b EXCEPT !.state.substate = m,
               !.src.substate = IF b.sShared THEN m ELSE @]

\* Impl.removeSubState: this._substate becomes a new object without the key.
removeSubState(b, key) ==
  [b EXCEPT !.state.substate = without(@, key), !.sShared = FALSE]

\* ------------------------------------------------------------------ update functions
\* An UpdateFn is a record: kind "const" returns Try.unwrap(value) whatever it
\* is given (the function updatingValue builds), "map" is v => v.map(other),
\* "orElse" is v => v.getOrElse(value), "throw" throws.
other(v) == IF v = "n1" THEN "n2" ELSE "n1"

constFn(value) == [kind |-> "const", value |-> value]

UpdateFns ==
  {[kind |-> "map", value |-> Null], [kind |-> "throw", value |-> Null],
   [kind |-> "orElse", value |-> "n1"], constFn(Null)}

\* fn(v): what the function returns (undefined for a failure Try), or that it threw.
applyFn(fn, t) ==
  CASE fn.kind = "const" -> [threw |-> FALSE, value |-> fn.value]
    [] fn.kind = "map" ->
         [threw |-> FALSE, value |-> IF t.ok THEN other(t.value) ELSE Null]
    [] fn.kind = "orElse" ->
         [threw |-> FALSE, value |-> IF t.ok THEN t.value ELSE fn.value]
    [] OTHER -> [threw |-> TRUE, value |-> Null]

\* Try.evaluate(() => fn(v)).value: undefined when fn threw.
evaluate(fn, t) == IF applyFn(fn, t).threw THEN Null ELSE applyFn(fn, t).value

\* Builder.updateValueWithFunction.
updateValueWithFunction(b, id, fn) ==
  LET value == evaluate(fn, valueAtNode(b.state, id))
  IN IF value # Null THEN setValue(b, id, value) ELSE removeValue(b, id)

\* undefined / null where a node is expected.
NoState == [none |-> TRUE]

\* Try.value of a Try of a node.
stateOrNull(t) == IF t.ok THEN t.value ELSE NoState

\* Builder.updateSubstate: ss is a node or NoState.
updateSubstate(b, id, ss) ==
  IF ss # NoState THEN setSubstate(b, id, ss) ELSE removeSubState(b, id)

\* empty(): builder().build().
empty == build(NewBuilder)

\* ------------------------------------------------------------------ state+map, state+modify
\* Each operation gives [res |-> the node it returns, self |-> its receiver as
\* the receiver is after the call].

\* The receiver with the child under `key` as that child is after a call on it.
withChildNow(n, key, child) ==
  IF hasKey(n.substate, key)
  THEN [n EXCEPT !.substate = put(@, key, child)]
  ELSE n

\* Impl.prototype.mappingValue.
RECURSIVE mappingValueR(_, _, _)
mappingValueR(n, id, fn) ==
  LET first == firstOf(id, n.sep) IN
  IF Len(split(id, n.sep)) = 1
  THEN LET b == updateValueWithFunction(cloneBuilder(n), first, fn)
       IN [res |-> build(b), self |-> b.src]
  ELSE LET found == substateAtNode(n, first)
           sub == IF found.ok THEN found.value ELSE empty
           inner == mappingValueR(sub, restOf(id, n.sep), fn)
           now == IF found.ok THEN withChildNow(n, first, inner.self) ELSE n
           b == updateSubstate(cloneBuilder(now), first, inner.res)
       IN [res |-> build(b), self |-> b.src]

mappingValue(n, id, fn) == mappingValueR(n, id, fn).res

\* Impl.prototype.updatingValue: mappingValue with () => Try.unwrap(value).
updatingValueR(n, id, value) == mappingValueR(n, id, constFn(value))

updatingValue(n, id, value) == updatingValueR(n, id, value).res

\* Impl.prototype.removingValue.
removingValueR(n, id) == updatingValueR(n, id, Null)

removingValue(n, id) == removingValueR(n, id).res

\* Impl.prototype.copyingValue.
copyingValueR(n, src, dest) == updatingValueR(n, dest, valueOrNull(valueAtNode(n, src)))

copyingValue(n, src, dest) == copyingValueR(n, src, dest).res

\* A move that leaves the source in place.
movingValueKeepingSource(n, src, dest) == copyingValueR(n, src, dest)

\* Impl.prototype.movingValue: copyingValue, then removingValue on its result.
movingValueR(n, src, dest) ==
  [res |-> removingValue(copyingValue(n, src, dest), src),
   self |-> copyingValueR(n, src, dest).self]

movingValue(n, src, dest) == movingValueR(n, src, dest).res

\* Impl.prototype.updatingKeyValues: a clone, then updatingValue entry by entry.
RECURSIVE foldKeyValues(_, _)
foldKeyValues(state, entries) ==
  IF Len(entries) = 0 THEN state
  ELSE foldKeyValues(updatingValue(state, entries[1][1], entries[1][2]), Tail(entries))

updatingKeyValuesR(n, entries) ==
  [res |-> foldKeyValues(build(cloneBuilder(n)), entries),
   self |-> cloneBuilder(n).src]

updatingKeyValues(n, entries) == updatingKeyValuesR(n, entries).res

\* Impl.prototype.updatingSubstate: ss is a node, or NoState to remove.
RECURSIVE updatingSubstateR(_, _, _)
updatingSubstateR(n, id, ss) ==
  LET first == firstOf(id, n.sep) IN
  IF Len(split(id, n.sep)) = 1
  THEN LET b == updateSubstate(cloneBuilder(n), first, ss)
       IN [res |-> build(b), self |-> b.src]
  ELSE LET has == hasKey(n.substate, first)
           sub == IF has THEN n.substate[indexOf(n.substate, first)][2] ELSE empty
           inner == updatingSubstateR(sub, restOf(id, n.sep), ss)
           now == IF has THEN withChildNow(n, first, inner.self) ELSE n
       IN updatingSubstateR(now, first, inner.res)

updatingSubstate(n, id, ss) == updatingSubstateR(n, id, ss).res

\* Impl.prototype.removingSubstate.
removingSubstateR(n, id) == updatingSubstateR(n, id, NoState)

removingSubstate(n, id) == removingSubstateR(n, id).res

\* Impl.prototype.copyingSubstate.
copyingSubstateR(n, src, dest) ==
  updatingSubstateR(n, dest, stateOrNull(substateAtNode(n, src)))

copyingSubstate(n, src, dest) == copyingSubstateR(n, src, dest).res

\* A move that leaves the source in place.
movingSubstateKeepingSource(n, src, dest) == copyingSubstateR(n, src, dest)

\* Impl.prototype.movingSubstate.
movingSubstateR(n, src, dest) ==
  [res |-> removingSubstate(copyingSubstate(n, src, dest), src),
   self |-> copyingSubstateR(n, src, dest).self]

movingSubstate(n, src, dest) == movingSubstateR(n, src, dest).res

\* ------------------------------------------------------------------ state+inspect
\* Impl.prototype.flatten: {values: this._values, substate: {k: flatten(child)}}.
RECURSIVE flatten(_)
flatten(n) ==
  [values |-> n.values,
   substate |-> [i \in 1..Len(n.substate) |->
                   <<n.substate[i][1], flatten(n.substate[i][2])>>]]

\* Types.isInstance(state, 'values', 'substate'): the object has both members.
isInstance(x) == {"values", "substate"} \subseteq DOMAIN x

\* fromKeyValue(state): undefined gives the empty state; an object with the
\* members 'values' and 'substate' goes to fromState; of any other object the
\* members '_values' and '_substate' are read, which a plain object with one
\* of 'values' and 'substate' does not have.
fromKeyValue(x) ==
  IF x = NoState THEN empty
  ELSE IF isInstance(x) THEN fromState(x)
  ELSE build(withSubstate(withValues(NewBuilder, [map |-> <<>>, shared |-> FALSE]),
                          [map |-> <<>>, shared |-> FALSE]))

\* Impl.prototype.hasValues: Object.keys(this._values).length > 0.
hasValues(n) == Len(n.values) > 0

\* Impl.prototype.hasSubstate.
hasSubstate(n) == Len(n.substate) > 0

\* Impl.prototype.isEmpty: !(this.hasValues() && this.hasSubstate()).
isEmpty(n) == ~(hasValues(n) /\ hasSubstate(n))

\* Impl.prototype._forEach: the calls of the selector, in order, each a record
\* of its four arguments; the values of this node first, then substate by
\* substate.  ssPath is a Try of a string.
RECURSIVE forEach_(_, _, _)
RECURSIVE forEachSubstates(_, _, _, _)
forEach_(n, ssPath, level) ==
  [i \in 1..Len(valuesOf(n).map) |->
     [k |-> valuesOf(n).map[i][1],
      value |-> IF valuesOf(n).map[i][2] # Null
                THEN Success(valuesOf(n).map[i][2])
                ELSE Failure([text |-> "No value for key", path |-> valuesOf(n).map[i][1]]),
      ssPath |-> ssPath,
      level |-> level]]
    \o forEachSubstates(n, substateOf(n).map, ssPath, level)

forEachSubstates(n, entries, ssPath, level) ==
  IF Len(entries) = 0 THEN <<>>
  ELSE LET path == (IF ssPath.ok THEN ssPath.value \o <<n.sep>> ELSE <<>>)
                     \o entries[1][1]
       IN forEach_(fromState(entries[1][2]), Success(path), level + 1)
            \o forEachSubstates(n, Tail(entries), ssPath, level)

\* Impl.prototype.forEach.
forEach(n) ==
  forEach_(n, Failure([text |-> "No substate path for top state", path |-> <<>>]), 0)

\* Math.max(...v) of a non-empty array.
RECURSIVE maxOf(_)
maxOf(v) ==
  IF Len(v) = 1 THEN v[1]
  ELSE IF v[1] >= maxOf(Tail(v)) THEN v[1] ELSE maxOf(Tail(v))

\* v.reduce((v1, v2) => v1 + v2) of a non-empty array.
RECURSIVE sumOf(_)
sumOf(v) == IF Len(v) = 1 THEN v[1] ELSE v[1] + sumOf(Tail(v))

\* A levelCount that counts a node without substates as 0 (getOrElse(0)
\* without the + 1 for the node itself).
RECURSIVE levelCountFromZero(_)
levelCountFromZero(n) ==
  IF Len(n.substate) > 0
  THEN maxOf([i \in 1..Len(n.substate) |-> levelCountFromZero(n.substate[i][2])]) + 1
  ELSE 0

\* Impl.prototype.levelCount: the filter fails on an empty array of substates
\* and getOrElse(0) stands in for the maximum.
RECURSIVE levelCount(_)
levelCount(n) ==
  (IF Len(n.substate) > 0
   THEN maxOf([i \in 1..Len(n.substate) |-> levelCount(n.substate[i][2])])
   ELSE 0) + 1

\* A totalValueCount that leaves out the node's own values.
RECURSIVE totalValueCountBelow(_)
totalValueCountBelow(n) ==
  IF Len(n.substate) > 0
  THEN sumOf([i \in 1..Len(n.substate) |-> totalValueCountBelow(n.substate[i][2])])
  ELSE 0

\* Impl.prototype.totalValueCount: reduce without a start value throws on an
\* empty array, Try.map turns that into a failure and getOrElse(0) stands in.
RECURSIVE totalValueCount(_)
totalValueCount(n) ==
  Len(n.values)
    + (IF Len(n.substate) > 0
       THEN sumOf([i \in 1..Len(n.substate) |-> totalValueCount(n.substate[i][2])])
       ELSE 0)

\* Object.assign(target, source): the keys of source written into target one
\* after another.
RECURSIVE assign(_, _)
assign(target, source) ==
  IF Len(source) = 0 THEN target
  ELSE assign(put(target, source[1][1], source[1][2]), Tail(source))

\* The values of the substates alone, without the node's own values.
RECURSIVE valuesWithFullPathsOfSubstates(_)
valuesWithFullPathsOfSubstates(n) ==
  LET prefixed(entry) ==
        LET values == valuesWithFullPathsOfSubstates(entry[2])
        IN [i \in 1..Len(values) |->
              <<entry[1] \o <<n.sep>> \o values[i][1], values[i][2]>>]
      RECURSIVE substateValues(_, _)
      substateValues(acc, entries) ==
        IF Len(entries) = 0 THEN acc
        ELSE substateValues(assign(acc, assign(<<>>, prefixed(entries[1]))),
                            Tail(entries))
  IN substateValues(<<>>, substateOf(n).map)

\* Impl.prototype.valuesWithFullPaths: the values of each substate under
\* mainKey + separator + key, then Object.assign(substateValues, this.values).
RECURSIVE valuesWithFullPaths(_)
valuesWithFullPaths(n) ==
  LET prefixed(entry) ==
        LET values == valuesWithFullPaths(entry[2])
        IN [i \in 1..Len(values) |->
              <<entry[1] \o <<n.sep>> \o values[i][1], values[i][2]>>]
      RECURSIVE substateValues(_, _)
      substateValues(acc, entries) ==
        IF Len(entries) = 0 THEN acc
        ELSE substateValues(assign(acc, assign(<<>>, prefixed(entries[1]))),
                            Tail(entries))
  IN assign(substateValues(<<>>, substateOf(n).map), valuesOf(n).map)

\* ------------------------------------------------------------------ state+inspect: branches
\* A reduce that keeps the first array only.
concatFirst(v) == v[1]

\* v.reduce((v1, v2) => v1.concat(v2)) of a non-empty array of arrays.
RECURSIVE concatAll(_)
concatAll(v) == IF Len(v) = 1 THEN v[1] ELSE v[1] \o concatAll(Tail(v))

\* Branches that are not cut apart: the node itself as its only branch.
createSingleBranchesWhole_(n, atTop, ssKey) == <<<<<<>>, n>>>>

\* Impl.prototype._createSingleBranches: the [key, state] pairs of a node.
\* atTop stands for an undefined ssKey.  Each substate gives its own branches,
\* each wrapped as [key of the substate, empty().updatingSubstate(v2[0], v2[1])];
\* the Try fails on a node without substates, and the node itself is returned.
\* The uppermost level wraps each pair once more.
RECURSIVE createSingleBranches_(_, _, _)
createSingleBranches_(n, atTop, ssKey) ==
  LET entries == n.substate
      branchesOf(v1) ==
        LET branches == createSingleBranches_(fromState(v1[2]), FALSE, v1[1])
        IN IF Len(branches) > 0
           THEN [i \in 1..Len(branches) |->
                   <<v1[1], updatingSubstate(empty, branches[i][1], branches[i][2])>>]
           ELSE <<<<v1[1], fromState(v1[2])>>>>
      substateBranches ==
        IF Len(entries) > 0
        THEN Success(concatAll([i \in 1..Len(entries) |-> branchesOf(entries[i])]))
        ELSE Failure("No substate found")
  IN IF ~atTop \/ ~(Len(n.substate) > 0)
     THEN IF substateBranches.ok THEN substateBranches.value
          ELSE <<<<IF atTop THEN <<>> ELSE ssKey, n>>>>
     ELSE [i \in 1..Len(substateBranches.value) |->
             <<<<>>, updatingSubstate(empty, substateBranches.value[i][1],
                                      substateBranches.value[i][2])>>]

\* Impl.prototype.createSingleBranches.
createSingleBranches(n) ==
  [i \in 1..Len(createSingleBranches_(n, TRUE, <<>>)) |->
     createSingleBranches_(n, TRUE, <<>>)[i][2]]

\* ------------------------------------------------------------------ state+map: mappingEach
\* A MapFn: "other" maps a value to the other value, "none" returns undefined,
\* "throw" throws, "throwOnN1" throws for n1 and maps n2 to n1.
MapFns == {"other", "none", "throw", "throwOnN1"}

\* v.map(v1 => selector(v1)).value: Try.map turns an exception into a failure.
mapTry(selector, t) ==
  IF t.ok /\ (selector = "other" \/ (selector = "throwOnN1" /\ t.value # "n1"))
  THEN other(t.value)
  ELSE Null

\* Impl.prototype.mappingEach: the visits of forEach written one after another
\* into a fresh empty state, each at ssPath + separator + key.
RECURSIVE foldVisits(_, _, _, _)
foldVisits(state, visits, selector, separator) ==
  IF Len(visits) = 0 THEN state
  ELSE LET v == visits[1]
           fullPath == (IF v.ssPath.ok THEN v.ssPath.value \o <<separator>> ELSE <<>>)
                         \o v.k
       IN foldVisits(updatingValue(state, fullPath, mapTry(selector, v.value)),
                     Tail(visits), selector, separator)

mappingEachR(n, selector) ==
  [res |-> foldVisits(empty, forEach(n), selector, n.sep), self |-> n]

mappingEach(n, selector) == mappingEachR(n, selector).res

\* ------------------------------------------------------------------ state+clone
\* Impl.prototype.cloneWithPaths.
RECURSIVE cloneValues(_, _, _)
cloneValues(n, state, paths) ==
  IF Len(paths) = 0 THEN state
  ELSE cloneValues(n,
         IF valueAtNode(n, paths[1]).ok
         THEN updatingValue(state, paths[1], valueAtNode(n, paths[1]).value)
         ELSE state,
         Tail(paths))

RECURSIVE cloneSubstates(_, _, _)
cloneSubstates(n, state, paths) ==
  IF Len(paths) = 0 THEN state
  ELSE cloneSubstates(n,
         IF substateAtNode(n, paths[1]).ok
         THEN updatingSubstate(state, paths[1], substateAtNode(n, paths[1]).value)
         ELSE state,
         Tail(paths))

cloneWithPathsR(n, valuePaths, substatePaths) ==
  [res |-> cloneSubstates(n, cloneValues(n, empty, valuePaths), substatePaths),
   self |-> n]

cloneWithPaths(n, valuePaths, substatePaths) ==
  cloneWithPathsR(n, valuePaths, substatePaths).res

\* ------------------------------------------------------------------ state+equal
\* obj[key], undefined for a missing key.
getOrNull(m, k) == IF hasKey(m, k) THEN m[indexOf(m, k)][2] ELSE Null

getOrNoState(m, k) == IF hasKey(m, k) THEN m[indexOf(m, k)][2] ELSE NoState

\* Impl.prototype.equals: the keys of this node's values and substates are
\* looked up in the other state.
RECURSIVE equals(_, _)
equals(n, object) ==
  IF object = NoState THEN FALSE
  ELSE LET state == fromKeyValue(object)
           otherValues == valuesOf(state).map
           otherSubstates == substateOf(state).map
       IN /\ \A i \in 1..Len(n.values) :
               LET v1 == n.values[i][2]
                   v2 == getOrNull(otherValues, n.values[i][1])
               IN \/ v1 # Null /\ v2 # Null /\ v1 = v2
                  \/ v1 = Null /\ v2 = Null
          /\ \A i \in 1..Len(n.substate) :
               LET v1 == n.substate[i][2]
                   v2 == getOrNoState(otherSubstates, n.substate[i][1])
               IN v2 # NoState /\ equals(v1, v2)

\* The functions handed as equalFn: "default" stands for no function, "always"
\* and "never" answer true and false, "throw" throws.
EqualFns == {"default", "always", "never", "throw"}

\* lhsValue.zipWith(rhsValue, compareFn).getOrElse(false) for values: zipWith
\* fails when one side fails or compareFn throws.
zipValues(lhsValue, rhsValue, equalFn) ==
  /\ lhsValue.ok /\ rhsValue.ok
  /\ CASE equalFn = "default" -> lhsValue.value = rhsValue.value
       [] equalFn = "always" -> TRUE
       [] OTHER -> FALSE

\* The same for substates; the default compareFn is v1.equals(v2).
zipSubstates(lhsValue, rhsValue, equalFn) ==
  /\ lhsValue.ok /\ rhsValue.ok
  /\ CASE equalFn = "default" -> equals(fromState(lhsValue.value), rhsValue.value)
       [] equalFn = "always" -> TRUE
       [] OTHER -> FALSE

\* An equalsForValues that passes over a key found on one side only.
RECURSIVE equalsForValuesWhereBothHave(_, _, _, _)
equalsForValuesWhereBothHave(n, state, keys, equalFn) ==
  IF Len(keys) = 0 THEN TRUE
  ELSE LET lhsValue == valueAtNode(n, keys[1])
           rhsValue == valueAtNode(fromKeyValue(state), keys[1])
       IN IF ~(lhsValue.ok /\ rhsValue.ok)
          THEN equalsForValuesWhereBothHave(n, state, Tail(keys), equalFn)
          ELSE IF ~zipValues(lhsValue, rhsValue, equalFn) THEN FALSE
          ELSE equalsForValuesWhereBothHave(n, state, Tail(keys), equalFn)

\* Impl.prototype.equalsForValues: key by key, two failures are passed over,
\* anything else has to zip to true.
RECURSIVE equalsForValues(_, _, _, _)
equalsForValues(n, state, keys, equalFn) ==
  IF Len(keys) = 0 THEN TRUE
  ELSE LET lhsValue == valueAtNode(n, keys[1])
           rhsValue == valueAtNode(fromKeyValue(state), keys[1])
       IN IF ~lhsValue.ok /\ ~rhsValue.ok
          THEN equalsForValues(n, state, Tail(keys), equalFn)
          ELSE IF ~zipValues(lhsValue, rhsValue, equalFn) THEN FALSE
          ELSE equalsForValues(n, state, Tail(keys), equalFn)

\* Impl.prototype.equalsForSubstates.
RECURSIVE equalsForSubstates(_, _, _, _)
equalsForSubstates(n, state, keys, equalFn) ==
  IF Len(keys) = 0 THEN TRUE
  ELSE LET lhsValue == substateAtNode(n, keys[1])
           rhsValue == substateAtNode(fromKeyValue(state), keys[1])
       IN IF ~lhsValue.ok /\ ~rhsValue.ok
          THEN equalsForSubstates(n, state, Tail(keys), equalFn)
          ELSE IF ~zipSubstates(lhsValue, rhsValue, equalFn) THEN FALSE
          ELSE equalsForSubstates(n, state, Tail(keys), equalFn)

\* ------------------------------------------------------------------ inputs
\* The keys: one character each.
Keys == {<<c>> : c \in KeyChars}

\* The paths of k keys joined by sep.
RECURSIVE PathsWith(_, _)
PathsWith(k, sep) ==
  IF k = 1 THEN Keys
  ELSE {p \o <<sep>> \o key : p \in PathsWith(k - 1, sep), key \in Keys}

\* The empty string and every path of at most m keys joined by one separator.
Paths(m) ==
  {<<>>} \cup UNION {PathsWith(k, sep) : k \in 1..m, sep \in Separators}

\* builder().withSubstateSeparator(sep).build()
emptyWith(sep) == build(withSubstateSeparator(NewBuilder, sep))

\* The substates handed to updatingSubstate.
Substates ==
  {emptyWith(sep) : sep \in Separators}
    \cup {updatingValue(empty, key, "n1") : key \in Keys}

\* The sequences without repetition of at most m elements of S.
RECURSIVE ListsOf(_, _)
ListsOf(S, m) ==
  IF m = 0 THEN {<<>>}
  ELSE ListsOf(S, m - 1)
         \cup {Append(l, x) : l \in {l \in ListsOf(S, m - 1) : Len(l) = m - 1},
                              x \in S}

NoRepeat(l) == \A i, j \in 1..Len(l) : i # j => l[i] # l[j]

PathLists(m) == {l \in ListsOf(Paths(MaxSegs2), m) : NoRepeat(l)}

\* The uniform trees of the tests.  createLevels: the first letters of the
\* alphabet.
alphabets == <<"A", "B", "C", "D", "E">>

createLevels(levelCount_) == SubSeq(alphabets, 1, levelCount_)

\* '' + last + v for v in Numbers.range(0, countPerLevel).
indexes == <<"0", "1", "2", "3">>

\* createAllKeys: every key of the last level, each a path through all levels.
RECURSIVE createAllKeys(_, _)
createAllKeys(levels, countPerLevel) ==
  LET last_ == levels[Len(levels)]
      lastKeys == [v \in 1..countPerLevel |-> <<last_, indexes[v]>>]
  IN IF Len(levels) = 1 THEN lastKeys
     ELSE LET subKeys == createAllKeys(SubSeq(levels, 1, Len(levels) - 1), countPerLevel)
          IN [i \in 1..(Len(subKeys) * countPerLevel) |->
                subKeys[((i - 1) \div countPerLevel) + 1]
                  \o <<DefaultSeparator>>
                  \o lastKeys[((i - 1) % countPerLevel) + 1]]

\* allCombinations[v] = value for every prefix v of every key, key after key:
\* an object keeps a key at the place of its first assignment.
RECURSIVE assignAll(_, _, _)
assignAll(object, keys, value) ==
  IF Len(keys) = 0 THEN object
  ELSE assignAll(put(object, keys[1], value), Tail(keys), value)

subKeysOf(key) ==
  [v \in 1..Len(split(key, DefaultSeparator)) |->
     join(SubSeq(split(key, DefaultSeparator), 1, v), DefaultSeparator)]

RECURSIVE combine(_, _, _)
combine(object, allKeys, value) ==
  IF Len(allKeys) = 0 THEN object
  ELSE combine(assignAll(object, subKeysOf(allKeys[1]), value), Tail(allKeys), value)

createCombinations(levels, countPerLevel, value) ==
  combine(<<>>, createAllKeys(levels, countPerLevel), value)

\* ------------------------------------------------------------------ state machine
\* state: the tree the caller holds.  steps: the calls made so far.  last: the
\* last call, its receiver before (before) and after (self) the call, its
\* arguments and its result (after).
VARIABLES state, steps, last

\* builders: the Builders made so far, each with the Impl it holds (b) and
\* whether its build() has been called (hasBuilt, which the code does not
\* record).  bsteps: the Builder calls made so far.  lastB: the last Builder call.
VARIABLES builders, bsteps, lastB

tvars == <<state, steps, last>>

bvars == <<builders, bsteps, lastB>>

vars == <<state, steps, last, builders, bsteps, lastB>>

NoCall ==
  [op |-> "none", before |-> empty, self |-> empty, after |-> empty,
   p |-> <<>>, q |-> <<>>, v |-> Null, fn |-> constFn(Null), ss |-> NoState,
   selector |-> "none", paths |-> <<>>, paths2 |-> <<>>, out |-> <<>>,
   made |-> <<>>, other |-> NoState, keys |-> <<>>, equalFn |-> "default"]

\* No Builder call made: the Impl named before and after is the empty one.
NoBuilderCall ==
  [op |-> "none", i |-> 0, hasBuilt |-> FALSE, threw |-> FALSE,
   before |-> NewImpl, after |-> NewImpl]

Init ==
  /\ state \in {emptyWith(sep) : sep \in Separators}
  /\ steps = 0
  /\ last = [NoCall EXCEPT !.before = state, !.self = state, !.after = state]
  /\ builders = <<>>
  /\ bsteps = 0
  /\ lastB = NoBuilderCall

\* A call may be made.
CanCall == steps < MaxSteps /\ last.op = "none"

\* The caller replaces the tree it holds by the result r of the call.
Call(c, r) ==
  /\ steps' = steps + 1
  /\ state' = r.res
  /\ last' = [c EXCEPT !.before = state, !.self = r.self, !.after = r.res]
  /\ UNCHANGED bvars

UpdatingValue ==
  /\ CanCall
  /\ \E p \in Paths(MaxSegs), v \in Vals :
    Call([NoCall EXCEPT !.op = "updatingValue", !.p = p, !.v = v, !.fn = constFn(v)],
         updatingValueR(state, p, v))

RemovingValue ==
  /\ CanCall
  /\ \E p \in Paths(MaxSegs) :
    Call([NoCall EXCEPT !.op = "removingValue", !.p = p],
         removingValueR(state, p))

MappingValue ==
  /\ CanCall
  /\ \E p \in Paths(MaxSegs), fn \in UpdateFns :
    Call([NoCall EXCEPT !.op = "mappingValue", !.p = p, !.fn = fn],
         mappingValueR(state, p, fn))

UpdatingKeyValues ==
  /\ CanCall
  /\ \E paths \in PathLists(MaxEntries), v \in Vals :
    Call([NoCall EXCEPT !.op = "updatingKeyValues", !.paths = paths, !.v = v],
         updatingKeyValuesR(state, [i \in 1..Len(paths) |-> <<paths[i], v>>]))

UpdatingSubstate ==
  /\ CanCall
  /\ \E p \in Paths(MaxSegs), ss \in Substates :
    Call([NoCall EXCEPT !.op = "updatingSubstate", !.p = p, !.ss = ss],
         updatingSubstateR(state, p, ss))

RemovingSubstate ==
  /\ CanCall
  /\ \E p \in Paths(MaxSegs) :
    Call([NoCall EXCEPT !.op = "removingSubstate", !.p = p],
         removingSubstateR(state, p))

CopyingValue ==
  /\ CanCall
  /\ \E p, q \in Paths(MaxSegs2) :
    Call([NoCall EXCEPT !.op = "copyingValue", !.p = p, !.q = q],
         copyingValueR(state, p, q))

MovingValue ==
  /\ CanCall
  /\ \E p, q \in Paths(MaxSegs2) :
    Call([NoCall EXCEPT !.op = "movingValue", !.p = p, !.q = q],
         movingValueR(state, p, q))

CopyingSubstate ==
  /\ CanCall
  /\ \E p, q \in Paths(MaxSegs2) :
    Call([NoCall EXCEPT !.op = "copyingSubstate", !.p = p, !.q = q],
         copyingSubstateR(state, p, q))

MovingSubstate ==
  /\ CanCall
  /\ \E p, q \in Paths(MaxSegs2) :
    Call([NoCall EXCEPT !.op = "movingSubstate", !.p = p, !.q = q],
         movingSubstateR(state, p, q))

MappingEach ==
  /\ CanCall
  /\ \E selector \in MapFns :
    Call([NoCall EXCEPT !.op = "mappingEach", !.selector = selector],
         mappingEachR(state, selector))

CloneWithPaths ==
  /\ CanCall
  /\ \E paths \in PathLists(MaxEntries), paths2 \in PathLists(MaxEntries) :
    /\ Len(paths) + Len(paths2) <= MaxEntries
    /\ Call([NoCall EXCEPT !.op = "cloneWithPaths", !.paths = paths, !.paths2 = paths2],
            cloneWithPathsR(state, paths, paths2))

\* The caller drops the record of the call and keeps its result.
Return ==
  /\ last.op # "none"
  /\ last' = [NoCall EXCEPT !.before = state, !.self = state, !.after = state]
  /\ UNCHANGED <<state, steps>>
  /\ UNCHANGED bvars

Next ==
  \/ Return
  \/ UpdatingValue
  \/ RemovingValue
  \/ MappingValue
  \/ UpdatingKeyValues
  \/ UpdatingSubstate
  \/ RemovingSubstate
  \/ CopyingValue
  \/ MovingValue
  \/ CopyingSubstate
  \/ MovingSubstate
  \/ MappingEach
  \/ CloneWithPaths

Spec == Init /\ [][Next]_vars

\* ------------------------------------------------------------------ reading a tree
\* The node after its caller wrote got[k] = v (delete got[k] for an absent v)
\* into the object got that a getter of the node returned: the write shows in
\* the node when got is the node's own object.
valuesWritten(n, got, k, v) ==
  IF got.shared
  THEN [n EXCEPT !.values = IF v = Null THEN without(got.map, k) ELSE put(got.map, k, v)]
  ELSE n

substateWritten(n, got, k, ss) ==
  IF got.shared
  THEN [n EXCEPT !.substate = IF ss = NoState THEN without(got.map, k) ELSE put(got.map, k, ss)]
  ELSE n

\* The calls that make a tree from the empty one.
Makers == {"createState", "createUniformState"}

\* A call that reads the tree the caller holds and leaves it as it is; the
\* call record c carries what the call returned (out) and, when the tree was
\* just made, from what it was made (made, paths, v).
Inspect(c) ==
  /\ last.op \in {"none"} \cup Makers
  /\ last' = [c EXCEPT !.before = state, !.self = state, !.after = state,
                       !.made = last.made, !.paths = last.paths, !.v = last.v]
  /\ UNCHANGED <<state, steps>>
  /\ UNCHANGED bvars

\* state.values[k] = v, delete state.values[k].
SettingValuesDirectly ==
  /\ last.op = "none"
  /\ \E k \in Keys, v \in Vals \cup {Null} :
    /\ state' = valuesWritten(state, valuesOf(state), k, v)
    /\ last' = [NoCall EXCEPT !.op = "values[k] = v", !.p = k, !.v = v,
                              !.before = state, !.self = state', !.after = state']
  /\ UNCHANGED steps
  /\ UNCHANGED bvars

\* state.substate[k] = ss, delete state.substate[k].
SettingSubstateDirectly ==
  /\ last.op = "none"
  /\ \E k \in Keys, ss \in Substates \cup {NoState} :
    /\ state' = substateWritten(state, substateOf(state), k, ss)
    /\ last' = [NoCall EXCEPT !.op = "substate[k] = ss", !.p = k, !.ss = ss,
                              !.before = state, !.self = state', !.after = state']
  /\ UNCHANGED steps
  /\ UNCHANGED bvars

\* createState(combinations) of the tests, State.empty().updatingKeyValues(
\* combinations), as the first call: for the combinations of a uniform key set
\* (made is <<levels, keys per level>>) ...
CreateUniformState ==
  /\ CanCall
  /\ steps = 0
  /\ state = empty
  /\ \E levelCount_ \in 1..MaxLevels, countPerLevel \in 1..MaxPerLevel, v \in Vals :
    LET combinations == createCombinations(createLevels(levelCount_), countPerLevel, v)
    IN Call([NoCall EXCEPT !.op = "createUniformState", !.v = v,
                           !.paths = [i \in 1..Len(combinations) |-> combinations[i][1]],
                           !.made = <<levelCount_, countPerLevel>>],
            updatingKeyValuesR(state, combinations))

\* ... and for a few paths of any kind, all different.
CreateState ==
  /\ CanCall
  /\ steps = 0
  /\ state = empty
  /\ \E paths \in PathLists(MaxEntries), v \in Vals :
    /\ Len(paths) > 0
    /\ Call([NoCall EXCEPT !.op = "createState", !.v = v, !.paths = paths],
            updatingKeyValuesR(state, [i \in 1..Len(paths) |-> <<paths[i], v>>]))

LevelCount ==
  Inspect([NoCall EXCEPT !.op = "levelCount", !.out = levelCount(state)])

TotalValueCount ==
  Inspect([NoCall EXCEPT !.op = "totalValueCount", !.out = totalValueCount(state)])

ValuesWithFullPaths ==
  Inspect([NoCall EXCEPT !.op = "valuesWithFullPaths", !.out = valuesWithFullPaths(state)])

ForEach ==
  Inspect([NoCall EXCEPT !.op = "forEach", !.out = forEach(state)])

\* n.isEmpty()
IsEmpty ==
  Inspect([NoCall EXCEPT !.op = "isEmpty", !.out = isEmpty(state)])

\* n.createSingleBranches()
CreateSingleBranches ==
  Inspect([NoCall EXCEPT !.op = "createSingleBranches",
                         !.out = createSingleBranches(state)])

NextInspect ==
  \/ Return
  \/ CreateUniformState
  \/ CreateState
  \/ UpdatingValue
  \/ UpdatingSubstate
  \/ LevelCount
  \/ TotalValueCount
  \/ ValuesWithFullPaths
  \/ ForEach
  \/ CreateSingleBranches
  \/ IsEmpty
  \/ MappingEach
  \/ SettingValuesDirectly
  \/ SettingSubstateDirectly

SpecInspect == Init /\ [][NextInspect]_vars

\* ------------------------------------------------------------------ comparing two trees
\* The trees that are compared: the empty one, and one value or one substate
\* written into it.
TreesToCompare ==
  {empty}
    \cup {updatingValue(empty, p, v) :
            p \in UNION {PathsWith(k, DefaultSeparator) : k \in 1..MaxSegs2}, v \in Vals}
    \cup {updatingSubstate(empty, key, ss) : key \in Keys, ss \in Substates}

\* The states handed to a comparison: none, a tree, or the flattened plain
\* object of a tree.
StatesToCompare ==
  {NoState} \cup TreesToCompare \cup {flatten(t) : t \in TreesToCompare}

InitCompare ==
  /\ state \in TreesToCompare
  /\ steps = 0
  /\ last = [NoCall EXCEPT !.before = state, !.self = state, !.after = state]
  /\ builders = <<>>
  /\ bsteps = 0
  /\ lastB = NoBuilderCall

\* n.equalsForValues(other, keys, equalFn)
EqualsForValues ==
  /\ last.op = "none"
  /\ \E m \in StatesToCompare, keys \in PathLists(MaxEntries), equalFn \in EqualFns :
    Inspect([NoCall EXCEPT !.op = "equalsForValues", !.other = m, !.keys = keys,
                           !.equalFn = equalFn,
                           !.out = equalsForValues(state, m, keys, equalFn)])

\* n.equalsForSubstates(other, keys, equalFn)
EqualsForSubstates ==
  /\ last.op = "none"
  /\ \E m \in StatesToCompare, keys \in PathLists(MaxEntries), equalFn \in EqualFns :
    Inspect([NoCall EXCEPT !.op = "equalsForSubstates", !.other = m, !.keys = keys,
                           !.equalFn = equalFn,
                           !.out = equalsForSubstates(state, m, keys, equalFn)])

NextCompare == EqualsForValues \/ EqualsForSubstates

SpecCompare == InitCompare /\ [][NextCompare]_vars

\* ------------------------------------------------------------------ access by path
\* The trees that are read: an empty tree of either separator, and one value
\* of any kind or one substate written into it.
TreesToAccess ==
  {emptyWith(sep) : sep \in Separators}
    \cup {updatingValue(emptyWith(sep), p, v) :
            sep \in Separators, p \in Paths(MaxSegs2), v \in TypedVals}
    \cup {updatingSubstate(emptyWith(sep), p, ss) :
            sep \in Separators, p \in Paths(MaxSegs2), ss \in Substates}

InitAccess ==
  /\ state \in TreesToAccess
  /\ steps = 0
  /\ last = [NoCall EXCEPT !.before = state, !.self = state, !.after = state]
  /\ builders = <<>>
  /\ bsteps = 0
  /\ lastB = NoBuilderCall

\* n.substateAtNode(p)
SubstateAtNode ==
  /\ last.op = "none"
  /\ \E p \in Paths(MaxSegs2) :
       Inspect([NoCall EXCEPT !.op = "substateAtNode", !.p = p,
                              !.out = substateAtNode(state, p)])

\* n.stringAtNode(p)
StringAtNode ==
  /\ last.op = "none"
  /\ \E p \in Paths(MaxSegs2) :
       Inspect([NoCall EXCEPT !.op = "stringAtNode", !.p = p,
                              !.out = stringAtNode(state, p)])

\* n.booleanAtNode(p)
BooleanAtNode ==
  /\ last.op = "none"
  /\ \E p \in Paths(MaxSegs2) :
       Inspect([NoCall EXCEPT !.op = "booleanAtNode", !.p = p,
                              !.out = booleanAtNode(state, p)])

\* n.numberAtNode(p)
NumberAtNode ==
  /\ last.op = "none"
  /\ \E p \in Paths(MaxSegs2) :
       Inspect([NoCall EXCEPT !.op = "numberAtNode", !.p = p,
                              !.out = numberAtNode(state, p)])

\* n.instanceAtNode(ctor, p); the class is kept in the record's selector.
InstanceAtNode ==
  /\ last.op = "none"
  /\ \E p \in Paths(MaxSegs2), ctor \in Ctors :
       Inspect([NoCall EXCEPT !.op = "instanceAtNode", !.p = p, !.selector = ctor,
                              !.out = instanceAtNode(state, ctor, p)])

\* The plain objects handed to fromState and fromKeyValue: undefined, an
\* object without 'values' and 'substate', with one of them, with both; a
\* substate of the object is a plain object itself.
PlainValues == {<<>>} \cup {<<<<k, "n1">>>> : k \in Keys}

PlainSubstates ==
  {<<>>} \cup {<<<<k, [values |-> v]>>>> : k \in Keys, v \in PlainValues}
         \cup {<<<<k, [values |-> v, substate |-> <<>>]>>>> : k \in Keys, v \in PlainValues}

ObjectsToRead ==
  {NoState, [plain |-> TRUE]}
    \cup {[values |-> v] : v \in PlainValues}
    \cup {[substate |-> ss] : ss \in PlainSubstates}
    \cup {[values |-> v, substate |-> ss] : v \in PlainValues, ss \in PlainSubstates}

\* State.fromState(x)
FromState ==
  /\ last.op = "none"
  /\ \E x \in ObjectsToRead :
       Inspect([NoCall EXCEPT !.op = "fromState", !.other = x, !.out = fromState(x)])

\* State.fromKeyValue(x)
FromKeyValue ==
  /\ last.op = "none"
  /\ \E x \in ObjectsToRead :
       Inspect([NoCall EXCEPT !.op = "fromKeyValue", !.other = x, !.out = fromKeyValue(x)])

\* flatten().values: the member 'values' of the flattened object is
\* this._values, the node's own object.
flattenedValues(n) == [map |-> n.values, shared |-> TRUE]

\* The values object of a plain object x as fromState takes it: state.values
\* is handed to withValues and becomes _values; a missing one gives a new {}.
valuesGiven(x) ==
  IF "values" \in DOMAIN x THEN [map |-> x.values, shared |-> TRUE]
  ELSE [map |-> <<>>, shared |-> FALSE]

\* The same as fromKeyValue takes it: through fromState when the object has
\* both members, a new {} otherwise.
valuesGivenAsKeyValue(x) ==
  IF isInstance(x) THEN valuesGiven(x) ELSE [map |-> <<>>, shared |-> FALSE]

\* n.flatten().values[k] = v, delete n.flatten().values[k].
SettingFlattenedValuesDirectly ==
  /\ last.op = "none"
  /\ \E k \in Keys, v \in Vals \cup {Null} :
    /\ state' = valuesWritten(state, flattenedValues(state), k, v)
    /\ last' = [NoCall EXCEPT !.op = "flatten().values[k] = v", !.p = k, !.v = v,
                              !.before = state, !.self = state', !.after = state']
  /\ UNCHANGED steps
  /\ UNCHANGED bvars

\* n = State.fromState(x); x.values[k] = v.  The tree the caller holds is n.
SettingValuesAfterFromState ==
  /\ last.op = "none"
  /\ \E x \in ObjectsToRead, k \in Keys, v \in Vals \cup {Null} :
    /\ x # NoState /\ "values" \in DOMAIN x
    /\ state' = valuesWritten(fromState(x), valuesGiven(x), k, v)
    /\ last' = [NoCall EXCEPT !.op = "fromState(x); x.values[k] = v", !.other = x,
                              !.p = k, !.v = v, !.before = fromState(x),
                              !.self = state', !.after = state']
  /\ UNCHANGED steps
  /\ UNCHANGED bvars

\* n = State.fromKeyValue(x); x.values[k] = v.
SettingValuesAfterFromKeyValue ==
  /\ last.op = "none"
  /\ \E x \in ObjectsToRead, k \in Keys, v \in Vals \cup {Null} :
    /\ x # NoState /\ "values" \in DOMAIN x
    /\ state' = valuesWritten(fromKeyValue(x), valuesGivenAsKeyValue(x), k, v)
    /\ last' = [NoCall EXCEPT !.op = "fromKeyValue(x); x.values[k] = v", !.other = x,
                              !.p = k, !.v = v, !.before = fromKeyValue(x),
                              !.self = state', !.after = state']
  /\ UNCHANGED steps
  /\ UNCHANGED bvars

NextAccess ==
  \/ SettingFlattenedValuesDirectly
  \/ SettingValuesAfterFromState
  \/ SettingValuesAfterFromKeyValue
  \/ FromState
  \/ FromKeyValue
  \/ SubstateAtNode
  \/ StringAtNode
  \/ BooleanAtNode
  \/ NumberAtNode
  \/ InstanceAtNode

SpecAccess == InitAccess /\ [][NextAccess]_vars

\* ------------------------------------------------------------------ Builder life cycle
\* The plain objects a caller hands to withValues / withSubstate.
ValueObjects == {<<>>} \cup {<<<<k, "n1">>>> : k \in Keys}

SubstateObjects == {<<>>} \cup {<<<<k, empty>>>> : k \in Keys}

InitBuilder ==
  /\ state = empty
  /\ steps = 0
  /\ last = NoCall
  /\ builders = <<>>
  /\ bsteps = 0
  /\ lastB = NoBuilderCall

CanCallBuilder == bsteps < MaxBuilderSteps

\* A method of Builder i runs and leaves the Builder as nb.  No method of
\* Builder or Impl has a throw statement, and none looks at who calls or at
\* whether build() was called.
BuilderCall(op, i, nb) ==
  /\ bsteps' = bsteps + 1
  /\ builders' = [builders EXCEPT ![i].b = nb]
  /\ lastB' = [op |-> op, i |-> i, hasBuilt |-> builders[i].hasBuilt,
               threw |-> FALSE, before |-> builders[i].b.state, after |-> nb.state]
  /\ UNCHANGED tvars

\* State.builder(): new Builder().
CreateBuilder ==
  /\ CanCallBuilder
  /\ Len(builders) < MaxBuilders
  /\ builders' = Append(builders, [b |-> NewBuilder, hasBuilt |-> FALSE])
  /\ bsteps' = bsteps + 1
  /\ lastB' = [NoBuilderCall EXCEPT !.op = "builder", !.i = Len(builders) + 1]
  /\ UNCHANGED tvars

\* Builder.build(): hands out the Impl the Builder holds, the object itself.
BuilderBuild ==
  /\ CanCallBuilder
  /\ \E i \in 1..Len(builders) :
    /\ bsteps' = bsteps + 1
    /\ builders' = [builders EXCEPT ![i].hasBuilt = TRUE]
    /\ lastB' = [op |-> "build", i |-> i, hasBuilt |-> builders[i].hasBuilt,
                 threw |-> FALSE, before |-> builders[i].b.state,
                 after |-> build(builders[i].b)]
    /\ UNCHANGED tvars

BuilderUpdateValue ==
  /\ CanCallBuilder
  /\ \E i \in 1..Len(builders), id \in Keys, value \in Vals \cup {Null} :
    BuilderCall("updateValue", i,
                updateValueWithFunction(builders[i].b, id, constFn(value)))

BuilderUpdateSubstate ==
  /\ CanCallBuilder
  /\ \E i \in 1..Len(builders), id \in Keys, ss \in Substates \cup {NoState} :
    BuilderCall("updateSubstate", i, updateSubstate(builders[i].b, id, ss))

BuilderWithValues ==
  /\ CanCallBuilder
  /\ \E i \in 1..Len(builders), values \in ValueObjects :
    BuilderCall("withValues", i,
                withValues(builders[i].b, [map |-> values, shared |-> FALSE]))

BuilderWithSubstate ==
  /\ CanCallBuilder
  /\ \E i \in 1..Len(builders), substate \in SubstateObjects :
    BuilderCall("withSubstate", i,
                withSubstate(builders[i].b, [map |-> substate, shared |-> FALSE]))

BuilderWithSubstateSeparator ==
  /\ CanCallBuilder
  /\ \E i \in 1..Len(builders), separator \in Separators :
    BuilderCall("withSubstateSeparator", i,
                withSubstateSeparator(builders[i].b, separator))

NextBuilder ==
  \/ CreateBuilder
  \/ BuilderBuild
  \/ BuilderUpdateValue
  \/ BuilderUpdateSubstate
  \/ BuilderWithValues
  \/ BuilderWithSubstate
  \/ BuilderWithSubstateSeparator

SpecBuilder == InitBuilder /\ [][NextBuilder]_vars

\* ------------------------------------------------------------------ claims
\* The proper prefixes of path p, cut at the separator sep.
Prefixes(p, sep) ==
  {join(SubSeq(split(p, sep), 1, k), sep) : k \in 1..(Len(split(p, sep)) - 1)}

\* C1, the value: mappingValue(n, p, fn).valueAtNode(p) is fn applied to
\* n.valueAtNode(p), a failure where fn gives nothing; updatingValue(n, p, v)
\* then holds v at p.
C1_ValueWritten ==
  last.op \in {"mappingValue", "updatingValue"} =>
    /\ valueOrNull(valueAtNode(last.after, last.p))
         = evaluate(last.fn, valueAtNode(last.before, last.p))
    /\ last.op = "updatingValue" => valueAtNode(last.after, last.p) = Success(last.v)

\* C1: mappingValue(n, p, fn).valueAtNode(p) is fn applied to n.valueAtNode(p);
\* updatingValue(n, p, v).valueAtNode(p) succeeds with v, also when the
\* intermediate substates of p are missing in n, and every proper prefix of p
\* then resolves with substateAtNode.
C1_PathCreation ==
  /\ C1_ValueWritten
  /\ last.op = "updatingValue" =>
       \A prefix \in Prefixes(last.p, last.before.sep) :
         substateAtNode(last.after, prefix).ok

\* C2: no structural operation mutates its receiver: flatten of the receiver is
\* the same after the call as before it.
C2_ReceiverUnchanged ==
  last.op # "none" => flatten(last.self) = flatten(last.before)

C2_Witness ==
  /\ last.op = "updatingValue"
  /\ Len(last.before.values) > 0
  /\ flatten(last.after) # flatten(last.before)

\* The tree holds a value (a substate) where path p leads, each node on the way
\* cutting what is left of p at its own separator.
RECURSIVE HoldsValueAt(_, _)
HoldsValueAt(n, p) ==
  IF Len(split(p, n.sep)) = 1 THEN hasKey(n.values, p)
  ELSE /\ hasKey(n.substate, firstOf(p, n.sep))
       /\ HoldsValueAt(getOrNoState(n.substate, firstOf(p, n.sep)), restOf(p, n.sep))

RECURSIVE HoldsSubstateAt(_, _)
HoldsSubstateAt(n, p) ==
  IF Len(split(p, n.sep)) = 1 THEN hasKey(n.substate, p)
  ELSE /\ hasKey(n.substate, firstOf(p, n.sep))
       /\ HoldsSubstateAt(getOrNoState(n.substate, firstOf(p, n.sep)), restOf(p, n.sep))

\* Every tree a behaviour reaches is also held with no call on record (Return):
\* a claim about the tree alone is stated for those states.
Settled == last.op = "none"

\* The Builder calls that change the Impl the Builder holds.
Mutations ==
  {"updateValue", "updateSubstate", "withValues", "withSubstate",
   "withSubstateSeparator"}

\* C3: a mutation made through a Builder whose build() has been called throws
\* and leaves the values and substates of the Node it built unchanged.
C3_WriteGate ==
  (lastB.op \in Mutations /\ lastB.hasBuilt) =>
    /\ lastB.threw
    /\ lastB.after.values = lastB.before.values
    /\ lastB.after.substate = lastB.before.substate

\* C4: valueAtNode and substateAtNode give a failure, and no exception, exactly
\* when the terminal key or a substate on the way is absent, and the failure
\* names the whole path asked for.
C4_FailureNamesPath ==
  Settled =>
    \A p \in Paths(MaxSegs) :
      LET value == valueAtNode(state, p)
          substate == substateAtNode(state, p)
      IN /\ value.ok \in BOOLEAN
         /\ value.ok <=> HoldsValueAt(state, p)
         /\ ~value.ok => value.error.path = p
         /\ substate.ok \in BOOLEAN
         /\ substate.ok <=> HoldsSubstateAt(state, p)
         /\ ~substate.ok => substate.error.path = p

\* A substate on the way exists and the terminal key does not: the failure
\* comes from a node below the root, which was asked for the rest of the path.
C4_Witness ==
  \E p \in Paths(MaxSegs) :
    /\ Settled
    /\ Len(split(p, state.sep)) > 1
    /\ substateAtNode(state, firstOf(p, state.sep)).ok
    /\ ~valueAtNode(state, p).ok
    /\ ~substateAtNode(state, p).ok

\* C5: removingValue(n, p) and updatingValue(n, p, absent) are equal trees, and
\* valueAtNode(p) fails in the result.
C5_RemoveIsUpdateWithAbsent ==
  last.op = "removingValue" =>
    /\ equals(last.after, updatingValue(last.before, last.p, Null))
    /\ equals(updatingValue(last.before, last.p, Null), last.after)
    /\ ~valueAtNode(last.after, last.p).ok

C5_Witness ==
  /\ last.op = "removingValue"
  /\ valueAtNode(last.before, last.p).ok
  /\ Len(split(last.p, last.before.sep)) > 1

\* C6 as stated: for all src # dest, after movingValue(n, src, dest) the value
\* at src is gone and dest holds the value n had at src.
C6_MoveValue_AsStated ==
  (last.op = "movingValue" /\ last.p # last.q) =>
    /\ ~valueAtNode(last.after, last.p).ok
    /\ valueAtNode(last.after, last.q).ok
    /\ valueOrNull(valueAtNode(last.after, last.q))
         = valueOrNull(valueAtNode(last.before, last.p))

\* C6, amended: for all src # dest where n holds a value at src, after
\* movingValue(n, src, dest) the value at src is gone and dest holds the value
\* n had at src.
C6_MoveValue ==
  (last.op = "movingValue" /\ last.p # last.q
     /\ valueAtNode(last.before, last.p).ok) =>
    /\ ~valueAtNode(last.after, last.p).ok
    /\ valueAtNode(last.after, last.q) = Success(valueAtNode(last.before, last.p).value)

C6_Witness ==
  /\ last.op = "movingValue"
  /\ last.p # last.q
  /\ valueAtNode(last.before, last.p).ok
  /\ Len(split(last.q, last.before.sep)) > 1

\* C7: copying from a source that does not resolve is a no-op: copyingValue
\* leaves the value at dest as it was, copyingSubstate the substate at dest.
C7_CopyAbsentSource ==
  /\ (last.op = "copyingValue" /\ ~valueAtNode(last.before, last.p).ok) =>
       valueOrNull(valueAtNode(last.after, last.q))
         = valueOrNull(valueAtNode(last.before, last.q))
  /\ (last.op = "copyingSubstate" /\ ~substateAtNode(last.before, last.p).ok) =>
       stateOrNull(substateAtNode(last.after, last.q))
         = stateOrNull(substateAtNode(last.before, last.q))

\* C8 as stated: for every src at which n has a substate and every dest # src,
\* after movingSubstate(n, src, dest) the substate at src is gone and dest
\* holds a substate equal to the one n had at src.
C8_MoveSubstate_AsStated ==
  (last.op = "movingSubstate" /\ last.p # last.q
     /\ substateAtNode(last.before, last.p).ok) =>
    /\ ~substateAtNode(last.after, last.p).ok
    /\ substateAtNode(last.after, last.q) = substateAtNode(last.before, last.p)

\* The keys that path p goes through in tree n, from the root down: each node
\* cuts what is left of p at its own separator, a missing node as empty() does.
RECURSIVE Trail(_, _)
Trail(n, p) ==
  IF Len(split(p, n.sep)) = 1 THEN <<p>>
  ELSE <<firstOf(p, n.sep)>>
         \o Trail(IF hasKey(n.substate, firstOf(p, n.sep))
                  THEN getOrNoState(n.substate, firstOf(p, n.sep))
                  ELSE empty,
                  restOf(p, n.sep))

\* Trail s is the beginning of trail t.
StartsWith(t, s) == Len(s) <= Len(t) /\ SubSeq(t, 1, Len(s)) = s

\* In tree n, path q leads to or through the substate that path p leads to.
Below(n, q, p) == StartsWith(Trail(n, q), Trail(n, p))

\* C8, amended: for every src at which n has a substate and every dest that
\* lies neither below nor above src, after movingSubstate(n, src, dest) the
\* substate at src is gone and dest holds the substate n had at src.
C8_MoveSubstate ==
  (last.op = "movingSubstate"
     /\ substateAtNode(last.before, last.p).ok
     /\ ~Below(last.before, last.q, last.p)
     /\ ~Below(last.before, last.p, last.q)) =>
    /\ ~substateAtNode(last.after, last.p).ok
    /\ substateAtNode(last.after, last.q) = substateAtNode(last.before, last.p)

C8_Witness ==
  /\ last.op = "movingSubstate"
  /\ substateAtNode(last.before, last.p).ok
  /\ ~Below(last.before, last.q, last.p)
  /\ ~Below(last.before, last.p, last.q)
  /\ Len(split(last.q, last.before.sep)) > 1

\* C9: r = fromKeyValue(flatten(n)) equals n in both directions and has the
\* values and substates of n at every path.
C9_RoundTrip ==
  LET r == fromKeyValue(flatten(state)) IN
    Settled =>
    /\ equals(r, state)
    /\ equals(state, r)
    /\ \A p \in Paths(MaxSegs) :
         /\ valueOrNull(valueAtNode(r, p)) = valueOrNull(valueAtNode(state, p))
         /\ substateAtNode(r, p).ok <=> substateAtNode(state, p).ok

\* C9, the equals part alone.
C9_RoundTripEquals ==
  LET r == fromKeyValue(flatten(state)) IN
    Settled =>
    /\ equals(r, state)
    /\ equals(state, r)
    /\ flatten(r) = flatten(state)

\* C10: with n2 = n.updatingValue(x, v), n.equals(n2) is false whenever n did
\* not hold v at x, and n2.equals(n2) is true.
C10_EqualityUnderMutation ==
  (last.op = "updatingValue" /\ last.p \in Keys) =>
    /\ valueAtNode(last.before, last.p) # Success(last.v) =>
         ~equals(last.before, last.after)
    /\ equals(last.after, last.after)

\* C11: the mappings that the values and substate getters return are
\* snapshots: a write into one changes the outcome of no later valueAtNode or
\* substateAtNode on the node.
C11_GettersReturnSnapshots ==
  last.op \in {"values[k] = v", "substate[k] = ss"} =>
    \A p \in Paths(MaxSegs2) :
      /\ valueAtNode(last.after, p) = valueAtNode(last.before, p)
      /\ substateAtNode(last.after, p) = substateAtNode(last.before, p)

\* A substate the node holds is overwritten in the returned mapping.
C11_Witness ==
  /\ last.op = "substate[k] = ss"
  /\ substateAtNode(last.before, last.p).ok
  /\ stateOrNull(substateAtNode(last.before, last.p)) # last.ss

C12_WitnessEmptyPath ==
  /\ last.op = "updatingSubstate"
  /\ last.p = <<>>
  /\ substateAtNode(last.after, <<>>).ok

\* The substates of node n, one after another.
Children(n) == [i \in 1..Len(n.substate) |-> n.substate[i][2]]

\* C13: levelCount(n) is 1 for a node without substates and otherwise 1 plus
\* the greatest levelCount of its substates; the uniform tree with L levels
\* has levelCount L.
C13_LevelCount ==
  /\ last.op = "levelCount" =>
       LET counts == {levelCount(Children(last.before)[i]) :
                        i \in 1..Len(Children(last.before))}
       IN last.out = IF counts = {} THEN 1
                     ELSE 1 + CHOOSE m \in counts : \A c \in counts : c <= m
  /\ (last.op = "levelCount" /\ last.made # <<>>) => last.out = last.made[1]

\* A tree whose substates are not all of the same depth.
C13_Witness ==
  /\ last.op = "levelCount"
  /\ last.out = MaxLevels
  /\ \E i \in 1..Len(Children(last.before)) : levelCount(Children(last.before)[i]) = 1

\* The sum of f[1] .. f[k].
RECURSIVE SumUpTo(_, _)
SumUpTo(f, k) == IF k = 0 THEN 0 ELSE SumUpTo(f, k - 1) + f[k]

\* C14: totalValueCount(n) is the number of n's own values plus the sum of
\* totalValueCount over its substates, 0 for the empty tree; for the tree
\* empty().updatingKeyValues(m), m with distinct paths and non-null values, it
\* is the number of entries of m.
C14_TotalValueCount ==
  /\ last.op = "totalValueCount" =>
       last.out = Len(last.before.values)
                    + SumUpTo([i \in 1..Len(Children(last.before)) |->
                                 totalValueCount(Children(last.before)[i])],
                              Len(Children(last.before)))
  /\ (last.op = "totalValueCount" /\ last.before = empty) => last.out = 0
  /\ (last.op = "totalValueCount" /\ last.paths # <<>>) => last.out = Len(last.paths)

\* Values at the root and in substates of two levels.
C14_Witness ==
  /\ last.op = "totalValueCount"
  /\ Len(last.before.values) > 0
  /\ levelCount(last.before) > 2
  /\ last.out > Len(last.before.values) + 1

\* The entries of an object, as a set.
EntriesOf(object) == {object[i] : i \in 1..Len(object)}

\* C15: valuesWithFullPaths(empty().updatingKeyValues(m)) has the entries of
\* m, for every m from paths without empty segments to non-null values.
C15_FullPathsInvertKeyValues ==
  (last.op = "valuesWithFullPaths" /\ last.paths # <<>> /\ <<>> \notin EntriesOf(last.paths)) =>
    /\ EntriesOf(last.out) = {<<last.paths[i], last.v>> : i \in 1..Len(last.paths)}
    /\ Len(last.out) = Len(last.paths)

\* The uniform tree of the greatest size: values at every level.
C15_Witness ==
  /\ last.op = "valuesWithFullPaths"
  /\ last.made = <<MaxLevels, MaxPerLevel>>
  /\ Len(last.out) > MaxLevels

\* The path a visit of forEach stands for in a tree whose root has separator
\* sep: ssPath + sep + key, the key alone at the root.
FullPath(visit, sep) ==
  (IF visit.ssPath.ok THEN visit.ssPath.value \o <<sep>> ELSE <<>>) \o visit.k

\* Every node of the tree has separator sep.
RECURSIVE AllSeparatorsAre(_, _)
AllSeparatorsAre(n, sep) ==
  /\ n.sep = sep
  /\ \A i \in 1..Len(n.substate) : AllSeparatorsAre(n.substate[i][2], sep)

\* C16, the visits: as many visits as the tree has values, each with a value,
\* level 0 exactly at the root.
C16_VisitsEveryValueOnce ==
  last.op = "forEach" =>
    /\ Len(last.out) = totalValueCount(last.before)
    /\ \A i \in 1..Len(last.out) :
         /\ last.out[i].value.ok
         /\ last.out[i].level = 0 <=> ~last.out[i].ssPath.ok

\* C16: forEach visits every value of n once, with its key, its value, the
\* separator-joined path of its ancestor substate keys and the number of those
\* keys as level, so that n.valueAtNode(path + separator + key) is the value.
C16_ForEach ==
  last.op = "forEach" =>
    /\ C16_VisitsEveryValueOnce
    /\ \A i \in 1..Len(last.out) :
         /\ valueAtNode(last.before, FullPath(last.out[i], last.before.sep)) = last.out[i].value
         /\ last.out[i].ssPath.ok =>
              last.out[i].level = Len(split(last.out[i].ssPath.value, last.before.sep))

\* C16 for the trees whose nodes all have the separator of the root.
C16_ForEachOneSeparator ==
  (last.op = "forEach" /\ AllSeparatorsAre(last.before, last.before.sep)) =>
    \A i \in 1..Len(last.out) :
      valueAtNode(last.before, FullPath(last.out[i], last.before.sep)) = last.out[i].value

\* The values of the visits, without the absent ones.
ValuesVisited(values) == SelectSeq(values, LAMBDA v : v # Null)

\* The paths of k keys, each joined to the next by any of the separators.
RECURSIVE PathsOfAnySeparators(_)
PathsOfAnySeparators(k) ==
  IF k = 1 THEN Keys
  ELSE {p \o <<sep>> \o key :
          p \in PathsOfAnySeparators(k - 1), sep \in Separators, key \in Keys}

\* The empty string and every path of at most m keys.
AllPaths(m) == {<<>>} \cup UNION {PathsOfAnySeparators(k) : k \in 1..m}

\* C17: r = mappingEach(n, fn) holds fn(v) at every path where n holds a value
\* v, and no value there when fn throws for v or returns none; r holds no
\* value where n holds none; forEach visits the values of r in the order of
\* those of n.
C17_MappingEach ==
  last.op = "mappingEach" =>
    /\ \A p \in AllPaths(MaxSegs) :
         valueOrNull(valueAtNode(last.after, p))
           = mapTry(last.selector, valueAtNode(last.before, p))
    /\ [i \in 1..Len(forEach(last.after)) |-> forEach(last.after)[i].value.value]
         = ValuesVisited([i \in 1..Len(forEach(last.before)) |->
                            mapTry(last.selector, forEach(last.before)[i].value)])

\* In a tree whose nodes all have the separator of the root, mappingEach does
\* as C17 says.
C17_MappingEachOneSeparator ==
  (last.op = "mappingEach" /\ AllSeparatorsAre(last.before, last.before.sep)) =>
    /\ \A p \in AllPaths(MaxSegs) :
         valueOrNull(valueAtNode(last.after, p))
           = mapTry(last.selector, valueAtNode(last.before, p))
    /\ [i \in 1..Len(forEach(last.after)) |-> forEach(last.after)[i].value.value]
         = ValuesVisited([i \in 1..Len(forEach(last.before)) |->
                            mapTry(last.selector, forEach(last.before)[i].value)])

\* k to the power of e.
RECURSIVE Power(_, _)
Power(k, e) == IF e = 0 THEN 1 ELSE k * Power(k, e - 1)

\* C18: createSingleBranches of the uniform tree with L levels and K substates
\* per node returns K^(L-1) branches, and a tree without substates gives one
\* branch.
C18_BranchCount ==
  last.op = "createSingleBranches" =>
    /\ last.made # <<>> => Len(last.out) = Power(last.made[2], last.made[1] - 1)
    /\ Len(last.before.substate) = 0 => Len(last.out) = 1

\* The branches of a uniform tree of the most levels and keys per level.
C18_Witness ==
  /\ last.op = "createSingleBranches"
  /\ last.made = <<MaxLevels, MaxPerLevel>>
  /\ Len(last.out) = Power(MaxPerLevel, MaxLevels - 1)

\* A tree without substates that holds a value has been cut into branches.
C18_WitnessNoSubstate ==
  /\ last.op = "createSingleBranches"
  /\ Len(last.before.substate) = 0
  /\ Len(last.before.values) > 0
  /\ Len(last.out) = 1

\* C19: every value that forEach visits in a branch of n, with key k at
\* substate path s, is the value of n at s + separator + k (at k at the root).
C19_BranchValues ==
  last.op = "createSingleBranches" =>
    \A i \in 1..Len(last.out) :
      \A j \in 1..Len(forEach(last.out[i])) :
        LET visit == forEach(last.out[i])[j]
        IN valueAtNode(last.before, FullPath(visit, last.before.sep)) = visit.value

\* Every node of b has at most one substate.
RECURSIVE SingleChain(_)
SingleChain(b) ==
  /\ Len(b.substate) <= 1
  /\ \A i \in 1..Len(b.substate) : SingleChain(b.substate[i][2])

\* C20: in every branch of createSingleBranches every node has at most one
\* substate.
C20_SingleChains ==
  last.op = "createSingleBranches" =>
    \A i \in 1..Len(last.out) : SingleChain(last.out[i])

\* A tree with two substates at two levels has been cut into branches.
C20_Witness ==
  /\ last.op = "createSingleBranches"
  /\ Len(last.before.substate) > 1
  /\ \E i \in 1..Len(last.before.substate) :
       Len(last.before.substate[i][2].substate) > 1
  /\ Len(last.out) > 1

\* C21: cloneWithPaths(n, valuePaths, substatePaths) restricts n: a requested
\* value path resolves in the result exactly when it resolves in n, to the same
\* value; a requested substate path resolves in the result exactly when it
\* resolves in n, to the same subtree; every value the result holds is held by
\* n at the same path.
C21_CloneWithPaths ==
  last.op = "cloneWithPaths" =>
    /\ \A i \in 1..Len(last.paths) :
         valueOrNull(valueAtNode(last.after, last.paths[i]))
           = valueOrNull(valueAtNode(last.before, last.paths[i]))
    /\ \A i \in 1..Len(last.paths2) :
         LET s1 == substateAtNode(last.before, last.paths2[i])
             s2 == substateAtNode(last.after, last.paths2[i])
         IN /\ s1.ok = s2.ok
            /\ s1.ok => s1.value = s2.value
    /\ \A p \in AllPaths(MaxSegs) :
         valueAtNode(last.after, p).ok =>
           valueAtNode(last.after, p) = valueAtNode(last.before, p)

\* In a tree whose nodes all have the default separator, cloneWithPaths does
\* as C21 says.
C21_CloneWithPathsDefaultSeparator ==
  (last.op = "cloneWithPaths" /\ AllSeparatorsAre(last.before, DefaultSeparator)) =>
    /\ \A i \in 1..Len(last.paths) :
         valueOrNull(valueAtNode(last.after, last.paths[i]))
           = valueOrNull(valueAtNode(last.before, last.paths[i]))
    /\ \A i \in 1..Len(last.paths2) :
         LET s1 == substateAtNode(last.before, last.paths2[i])
             s2 == substateAtNode(last.after, last.paths2[i])
         IN /\ s1.ok = s2.ok
            /\ s1.ok => s1.value = s2.value
    /\ \A p \in AllPaths(MaxSegs) :
         valueAtNode(last.after, p).ok =>
           valueAtNode(last.after, p) = valueAtNode(last.before, p)

\* equalFn holds of two values.
HoldsOfValues(equalFn, v1, v2) ==
  \/ equalFn = "always"
  \/ equalFn = "default" /\ v1 = v2

\* equalFn holds of two substates; no function given stands for equals.
HoldsOfSubstates(equalFn, v1, v2) ==
  \/ equalFn = "always"
  \/ equalFn = "default" /\ equals(fromState(v1), v2)

\* C22: equalsForValues(n, m, keys, equalFn) is true exactly when every key
\* resolves to a value in neither n nor m, or in both with equalFn holding;
\* equalsForSubstates is the same over substates, with equals when no equalFn
\* is given.
C22_EqualsForPaths ==
  /\ last.op = "equalsForValues" =>
       (last.out <=>
          \A i \in 1..Len(last.keys) :
            LET v1 == valueAtNode(last.before, last.keys[i])
                v2 == valueAtNode(fromState(last.other), last.keys[i])
            IN \/ ~v1.ok /\ ~v2.ok
               \/ v1.ok /\ v2.ok /\ HoldsOfValues(last.equalFn, v1.value, v2.value))
  /\ last.op = "equalsForSubstates" =>
       (last.out <=>
          \A i \in 1..Len(last.keys) :
            LET s1 == substateAtNode(last.before, last.keys[i])
                s2 == substateAtNode(fromState(last.other), last.keys[i])
            IN \/ ~s1.ok /\ ~s2.ok
               \/ s1.ok /\ s2.ok /\ HoldsOfSubstates(last.equalFn, s1.value, s2.value))

\* A comparison of values that is false because of a key found on one side
\* only, after a key found on neither side.
C22_Witness ==
  /\ last.op = "equalsForValues"
  /\ last.equalFn = "default"
  /\ Len(last.keys) = 2
  /\ ~valueAtNode(last.before, last.keys[1]).ok
  /\ ~valueAtNode(fromState(last.other), last.keys[1]).ok
  /\ valueAtNode(last.before, last.keys[2]).ok
  /\ ~valueAtNode(fromState(last.other), last.keys[2]).ok
  /\ last.out = FALSE

\* A comparison of substates that is true with a substate found equal on both
\* sides.
C22_WitnessSubstates ==
  /\ last.op = "equalsForSubstates"
  /\ last.equalFn = "default"
  /\ \E i \in 1..Len(last.keys) : substateAtNode(last.before, last.keys[i]).ok
  /\ last.out = TRUE

C23_WitnessNoKey ==
  /\ last.op = "substateAtNode"
  /\ last.p = <<>>
  /\ Len(last.before.substate) > 0
  /\ ~last.out.ok

\* The typed accessor of the last call asks for the kind of v.
HasRequestedType(v) ==
  CASE last.op = "stringAtNode" -> typeOf(v) = "string"
    [] last.op = "booleanAtNode" -> typeOf(v) = "boolean"
    [] last.op = "numberAtNode" -> typeOf(v) = "number"
    [] last.op = "instanceAtNode" -> instanceOf(v, last.selector)
    [] OTHER -> FALSE

\* C24: stringAtNode, numberAtNode, booleanAtNode and instanceAtNode succeed
\* with the value exactly when valueAtNode(path) succeeds with a value of the
\* requested kind, and give a failure in every other case.
C24_TypedAccess ==
  last.op \in {"stringAtNode", "booleanAtNode", "numberAtNode", "instanceAtNode"} =>
    LET t == valueAtNode(last.before, last.p)
    IN IF t.ok /\ HasRequestedType(t.value)
       THEN last.out = Success(t.value)
       ELSE ~last.out.ok

\* A string was asked for at a path that holds a number.
C24_Witness ==
  /\ last.op = "stringAtNode"
  /\ Len(split(last.p, last.before.sep)) > 1
  /\ valueAtNode(last.before, last.p) = Success("n1")
  /\ ~last.out.ok

\* An instance of the class asked for was found.
C24_WitnessInstance ==
  /\ last.op = "instanceAtNode"
  /\ last.selector = "B"
  /\ last.out = Success("B1")

\* The tree holds the values of the plain object x and a substate for each
\* substate of x; a missing field counts as empty.
ReadsFieldsOf(n, x) ==
  /\ n.values = fieldOrEmpty(x, "values")
  /\ [i \in 1..Len(n.substate) |-> n.substate[i][1]]
       = [i \in 1..Len(fieldOrEmpty(x, "substate")) |-> fieldOrEmpty(x, "substate")[i][1]]

\* C25: fromKeyValue and fromState give the empty tree for undefined, and read
\* a plain object whose 'values' or 'substate' is missing with that field
\* empty and the other field kept.
C25_AbsentInput ==
  last.op \in {"fromState", "fromKeyValue"} =>
    IF last.other = NoState THEN last.out = empty
    ELSE ReadsFieldsOf(last.out, last.other)

\* fromState alone does as C25 says.
C25_FromState ==
  last.op = "fromState" =>
    IF last.other = NoState THEN last.out = empty
    ELSE ReadsFieldsOf(last.out, last.other)

\* fromKeyValue does as C25 says for undefined and for an object that has
\* both fields.
C25_FromKeyValueOfBothFields ==
  (last.op = "fromKeyValue" /\ (last.other = NoState \/ isInstance(last.other))) =>
    IF last.other = NoState THEN last.out = empty
    ELSE ReadsFieldsOf(last.out, last.other)

\* Every substate of tree a that tree b does not have, other than the written
\* substate ss, has separator sep, and so has every substate below it.
RECURSIVE CreatedHaveSeparator(_, _, _, _)
CreatedHaveSeparator(b, a, sep, ss) ==
  \A i \in 1..Len(a.substate) :
    LET key == a.substate[i][1]
        child == a.substate[i][2]
    IN IF hasKey(b.substate, key)
       THEN \/ child = getOrNoState(b.substate, key)
            \/ CreatedHaveSeparator(getOrNoState(b.substate, key), child, sep, ss)
       ELSE \/ child = ss
            \/ child.sep = sep /\ CreatedHaveSeparator(NewImpl, child, sep, ss)

\* C26: the intermediate substates that updatingValue, mappingValue and
\* updatingSubstate create have the separator of the root.
C26_SeparatorInherited ==
  last.op \in {"updatingValue", "mappingValue", "updatingSubstate"} =>
    CreatedHaveSeparator(last.before, last.after, last.before.sep, last.ss)

\* Under a root with the default separator the created substates have the
\* separator of the root.
C26_DefaultSeparatorInherited ==
  (/\ last.op \in {"updatingValue", "mappingValue", "updatingSubstate"}
   /\ last.before.sep = DefaultSeparator) =>
    CreatedHaveSeparator(last.before, last.after, last.before.sep, last.ss)

\* C27: a write into the values mapping of the object that flatten returned,
\* or of a plain object after fromState or fromKeyValue read it, changes the
\* outcome of no later valueAtNode on the node.
C27_NoSharedMapping ==
  last.op \in {"flatten().values[k] = v", "fromState(x); x.values[k] = v",
               "fromKeyValue(x); x.values[k] = v"} =>
    \A p \in Paths(MaxSegs2) :
      valueAtNode(last.after, p) = valueAtNode(last.before, p)

\* The same for a plain object that fromKeyValue read without finding both
\* 'values' and 'substate' in it.
C27_NoSharedMappingWithoutFields ==
  (last.op = "fromKeyValue(x); x.values[k] = v" /\ ~isInstance(last.other)) =>
    \A p \in Paths(MaxSegs2) :
      valueAtNode(last.after, p) = valueAtNode(last.before, p)

\* C28: isEmpty(n) is true exactly when n has no values and no substates.
C28_IsEmpty ==
  last.op = "isEmpty" =>
    (last.out <=> (Len(last.before.values) = 0 /\ Len(last.before.substate) = 0))

\* isEmpty is false exactly when the node has both values and substates.
C28_IsEmptyUnlessBoth ==
  last.op = "isEmpty" =>
    (last.out <=> ~(Len(last.before.values) > 0 /\ Len(last.before.substate) > 0))

\* The outcome of a resolution: the value found, or not found at the path
\* the error names.
Outcome(t) ==
  IF t.ok THEN [found |-> TRUE, value |-> t.value]
  ELSE [found |-> FALSE, path |-> t.error.path]

\* C29: a value write at p leaves every other path as it was: for q # p,
\* valueAtNode(q) has the same outcome, the same value or not found at q, in
\* updatingValue(n, p, v) as in n; v may be absent (removingValue).
C29_ValueWriteFrame ==
  last.op \in {"updatingValue", "removingValue"} =>
    \A q \in AllPaths(MaxSegs) \ {last.p} :
      Outcome(valueAtNode(last.after, q)) = Outcome(valueAtNode(last.before, q))

\* A value is overwritten below the root in a tree that holds another value.
C29_Witness ==
  /\ last.op = "updatingValue"
  /\ Len(split(last.p, last.before.sep)) > 1
  /\ valueAtNode(last.before, last.p).ok
  /\ valueAtNode(last.after, last.p) # valueAtNode(last.before, last.p)
  /\ \E q \in Paths(MaxSegs) \ {last.p} : valueAtNode(last.before, q).ok

\* C30: removingValue(n, p) where n holds no value at p creates no substate:
\* substateAtNode(q) fails in the result wherever it fails in n, and
\* levelCount is the same.
C30_RemovingAbsentValue ==
  (last.op = "removingValue" /\ ~valueAtNode(last.before, last.p).ok) =>
    /\ \A q \in AllPaths(MaxSegs) :
         ~substateAtNode(last.before, q).ok => ~substateAtNode(last.after, q).ok
    /\ levelCount(last.after) = levelCount(last.before)

\* Removing a value that is not there under a key of the root, where no
\* substate is on the way, changes nothing.
C30_RemovingAbsentValueAtRoot ==
  (/\ last.op = "removingValue"
   /\ ~valueAtNode(last.before, last.p).ok
   /\ Len(split(last.p, last.before.sep)) = 1) =>
    last.after = last.before

====
